---- MODULE Spec2Model ----
(***************************************************************************)
(* A model of the EDGAR crawl of sec-py: scrape_reports.py (Scrape10K,     *)
(* Scrape10Q, ScrapeS1 and their RunScrape* drivers) over the company      *)
(* table built by get_ticker_cik.py.                                       *)
(*                                                                         *)
(* Strings are sequences of tokens: a token is a run of characters that no *)
(* operation of the code splits (a word, a digit, a file extension), so    *)
(* str.replace, str.split and the `in` test work on them as on characters. *)
(***************************************************************************)
EXTENDS Integers, Sequences, FiniteSets, TLC

VARIABLES
    form,           \* which crawl runs: "10-K", "10-Q" or "S-1" (one form-type root)
    ticker_cik_df,  \* the company table GetTickerCikDf returns
    run,            \* crawl sessions started so far
    row,            \* position of the driver's for loop in the table
    pc,             \* position of the process
    cwd,            \* the working directory: Root or a company directory
    dirs,           \* company directories that exist under the root
    files,          \* files[d][name]: content of file `name` of directory d
    logs,           \* logs[s]: entries of the log file of session s
    filings_table,  \* the filtered filings table of the company being crawled
    idx,            \* position of the per-filing for loop
    docname,        \* the Document selected for the current filing
    net,            \* history: the requests of the current Scrape call
    nreq,           \* history: requests issued in the whole behaviour
    outcome,        \* history: the path by which the last Scrape call ended
    mkdirs,         \* history: successful os.mkdir per directory, this session
    ended,          \* history: the Scrape calls that ended before the per-filing loop
    calls,          \* history: the rows Scrape was called for, this session
    interrupted,    \* history: the Scrape calls an exception ended, with the files left
    written,        \* history: the working directory at each log and document write
    cik_dict,       \* the ticker/CIK pairs MapTickerToCik found, as a frame
    cik_sic_xlsx,   \* the rows of the WRDS sheet AddSicToCikDict reads
    procs,          \* procs[p]: position, row, working directory and loop of process p
    events,         \* history: what the processes did to the company directories
    soup,           \* the parsed document RemoveNumericalTables works on
    doc,            \* history: the document as parsed
    passes,         \* history: how often RemoveNumericalTables was applied to it
    rawtext,        \* rawtext[d][name]: file `name` of d/rawtext, where that directory exists
    all_raw_text,   \* what stands at the path all_raw_text under the form-type root
    stage,          \* position of ConvertToText and AggregateRawText
    converts,       \* calls of ConvertToText that returned
    reads,          \* history: the files the last ConvertHTML call opened and parsed
    converted       \* history: converted[d], the raw files of d when ConvertHTML last left it

vars == <<form, ticker_cik_df, run, row, pc, cwd, dirs, files, logs,
          filings_table, idx, docname, net, nreq, outcome, mkdirs, ended, calls,
          interrupted, written, soup, doc, passes, rawtext, all_raw_text, stage, converts,
          reads, converted, cik_dict, cik_sic_xlsx, procs, events>>

\* the state of the crawl, of the cleaning of one document, and of the
\* conversion and aggregation of the files
crawl == <<form, ticker_cik_df, run, row, pc, cwd, dirs, files, logs,
           filings_table, idx, docname, net, nreq, outcome, mkdirs, ended, calls,
           interrupted, written>>
noise == <<soup, doc, passes>>
pipeline == <<rawtext, all_raw_text, stage, converts, reads, converted>>
lookup == <<cik_dict, cik_sic_xlsx>>
concurrent == <<procs, events>>
sanitizer == <<noise, pipeline, lookup, concurrent>>

----------------------------------------------------------------------------
(* Bounds of the model *)

MaxRuns == 2
MaxRequests == 5
MaxFilings == 2
MaxDocRows == 2
MaxTables == 3
MaxPasses == 2
MaxConverts == 2

----------------------------------------------------------------------------
(* Strings *)

NBSP == "\\xa0"
SP == " "

\* str.replace(old, new) for a one-token `old`
Replace(s, old, new) == [i \in 1..Len(s) |-> IF s[i] = old THEN new ELSE s[i]]

\* str.find: the first position of sep in s, 0 when absent
Find(s, sep) ==
    LET hits == {i \in 1..(Len(s) - Len(sep) + 1) : SubSeq(s, i, i + Len(sep) - 1) = sep}
    IN IF hits = {} THEN 0 ELSE CHOOSE i \in hits : \A j \in hits : i <= j

\* str.split(sep): the parts between the occurrences of sep, left to right
RECURSIVE Split(_, _)
Split(s, sep) ==
    LET i == Find(s, sep)
    IN IF i = 0 THEN <<s>>
       ELSE <<SubSeq(s, 1, i - 1)>> \o Split(SubSeq(s, i + Len(sep), Len(s)), sep)

\* `sub in s` for a one-token sub
Contains(s, sub) == \E i \in 1..Len(s) : s[i] = sub

\* str(n) of a natural number, as its decimal digits
Digits == <<"0", "1", "2", "3", "4", "5", "6", "7", "8", "9">>
RECURSIVE Str(_)
Str(n) == IF n < 10 THEN <<Digits[n + 1]>> ELSE Str(n \div 10) \o <<Digits[(n % 10) + 1]>>

\* str.zfill(width)
RECURSIVE ZFill(_, _)
ZFill(s, width) == IF Len(s) >= width THEN s ELSE ZFill(<<"0">> \o s, width)

\* str(x) of a table cell: an empty cell is read as the float NaN
NaN == <<>>
PyStr(cell) == IF cell = NaN THEN <<"nan">> ELSE cell

----------------------------------------------------------------------------
(* The company table: get_ticker_cik.py *)

CikWidth == 10
NoSic == 0

\* the table MapTickerToCik hands to AddSicToCikDict: sorted by ticker, one
\* row per CIK
BaseDf == << [ticker |-> "aa", cik |-> ZFill(Str(1), CikWidth)],
             [ticker |-> "bb", cik |-> ZFill(Str(2), CikWidth)] >>

\* DataFrame.drop_duplicates(): keeps the first of equal rows
RECURSIVE DropDuplicates(_)
DropDuplicates(s) ==
    IF s = <<>> THEN <<>>
    ELSE LET init == DropDuplicates(SubSeq(s, 1, Len(s) - 1))
             last == s[Len(s)]
         IN IF \E i \in 1..Len(init) : init[i] = last THEN init ELSE Append(init, last)

\* the tickers GetTickers may return, in alphabetical order
Tickers == <<"aa", "ab", "bb">>
Rank(t) == CHOOSE i \in DOMAIN Tickers : Tickers[i] = t

\* cik_dict as a frame (DataFrame.from_dict, reset_index): one row per ticker
\* for which a CIK was found, in the order the tickers were looked up
CikDicts ==
    UNION { { [i \in 1..n |-> [ticker |-> Tickers[order[i]], cik |-> ZFill(Str(found[i]), CikWidth)]] :
                order \in {o \in [1..n -> DOMAIN Tickers] :
                              \A i, j \in 1..n : i # j => o[i] # o[j]},
                found \in [1..n -> {1, 2}] }
            : n \in 0..Len(Tickers) }

\* ticker_cik_df.sort_values(by='ticker'): the tickers of the frame are
\* distinct, so the order is theirs
RECURSIVE SortFrom(_, _)
SortFrom(df, k) ==
    IF k > Len(Tickers) THEN <<>>
    ELSE SelectSeq(df, LAMBDA r : r.ticker = Tickers[k]) \o SortFrom(df, k + 1)
SortValues(df) == SortFrom(df, 1)

\* ticker_cik_df.drop_duplicates(subset='cik', keep='first')
RECURSIVE DropDuplicatesCik(_)
DropDuplicatesCik(df) ==
    IF df = <<>> THEN <<>>
    ELSE LET init == DropDuplicatesCik(SubSeq(df, 1, Len(df) - 1))
             last == df[Len(df)]
         IN IF \E i \in 1..Len(init) : init[i].cik = last.cik THEN init ELSE Append(init, last)

\* the sheets cik_sic_map.xlsx may hold: no row, one industry code for a
\* company, the same row twice, two industry codes for one company
Sheets ==
    { <<>>,
      << [cik |-> 1, sic |-> 7370] >>,
      << [cik |-> 1, sic |-> 7370], [cik |-> 1, sic |-> 7370], [cik |-> 2, sic |-> 7372] >>,
      << [cik |-> 1, sic |-> 7370], [cik |-> 1, sic |-> 7372] >> }

\* cik_sic_map as read from the WRDS sheet: rows of integer cik and sic
\* (here: two industry codes for the first company, one of them given twice,
\* and none for the second)
SicSheets == { << [cik |-> 1, sic |-> 7370], [cik |-> 1, sic |-> 7372],
                  [cik |-> 1, sic |-> 7370] >> }

\* left.merge(right, how='left', on='cik'): each left row, in order, once per
\* right row of the same cik, in right order; once with a missing sic when
\* there is none
RECURSIVE MergeLeft(_, _)
MergeLeft(left, right) ==
    IF left = <<>> THEN <<>>
    ELSE LET l == left[1]
             m == SelectSeq(right, LAMBDA r : r.cik = l.cik)
             rows == IF m = <<>>
                     THEN << [ticker |-> l.ticker, cik |-> l.cik, sic |-> NoSic] >>
                     ELSE [i \in 1..Len(m) |->
                              [ticker |-> l.ticker, cik |-> l.cik, sic |-> m[i].sic]]
         IN rows \o MergeLeft(Tail(left), right)

AddSicToCikDict(df, sheet) ==
    LET cik_sic_map == DropDuplicates(sheet)
        padded == [i \in 1..Len(cik_sic_map) |->
                      [cik |-> ZFill(Str(cik_sic_map[i].cik), CikWidth),
                       sic |-> cik_sic_map[i].sic]]
    IN DropDuplicates(MergeLeft(df, padded))

\* ticker_cik_df[['cik','ticker']]: the two columns, every row kept
CikTicker(df) == [i \in 1..Len(df) |-> [cik |-> df[i].cik, ticker |-> df[i].ticker]]

----------------------------------------------------------------------------
(* What EDGAR serves *)

OK == 200
FailureCodes == {404}

Acc1 == <<"0000950123", "-", "19", "-", "000001">>
Acc2 == <<"0000950123", "-", "20", "-", "000002">>
Acc3 == <<"0000950123", "-", "21", "-", "000003">>

\* the Description cell of a filings row: the marker followed by a space, the
\* marker followed by a non-breaking space, the accession number at the end
\* of the cell, no marker
DescSpace == <<"Annual", SP, "report", NBSP, "Acc-no:", SP>> \o Acc1
             \o <<NBSP, "(34", SP, "Act)", NBSP, "Size:", SP, "5", SP, "MB">>
DescNbsp == <<"Annual", SP, "report", SP, "Acc-no:", NBSP>> \o Acc2
            \o <<SP, "Size:", SP, "9", SP, "MB">>
DescEnd == <<"Annual", SP, "report", NBSP, "Acc-no:", NBSP>> \o Acc3
DescNoMarker == <<"Annual", SP, "report", SP, "Size:", SP, "1", SP, "MB">>

\* the filings a browse page may list: two of the same day, one of them also
\* listed with a later date, and one whose description has no marker
ListedFilings ==
    { [Description |-> DescSpace, FilingDate |-> "2019-03-01"],
      [Description |-> DescNbsp, FilingDate |-> "2019-03-01"],
      [Description |-> DescNbsp, FilingDate |-> "2020-03-01"],
      [Description |-> DescEnd, FilingDate |-> "2020-03-01"],
      [Description |-> DescNoMarker, FilingDate |-> "2020-03-01"] }

\* the form types the browse page lists for a type= query (EDGAR matches the
\* type by prefix)
ListedFilingTypes(f) ==
    CASE f = "10-K" -> {"10-K", "10-K405", "10-K/A"}
      [] f = "10-Q" -> {"10-Q", "10-Q/A"}
      [] f = "S-1"  -> {"S-1", "S-1/A"}

\* the Type cells of a filing's document table: the form and an exhibit
ListedDocTypes(f) ==
    CASE f = "10-K" -> {"10-K", "10-K405", "EX-99"}
      [] f = "10-Q" -> {"10-Q", "EX-99"}
      [] f = "S-1"  -> {"S-1", "EX-99"}

\* the Document cells: empty (read as NaN), an HTML document, a text document
Documents == { NaN, <<"d10k", ".htm">>, <<"0000950123-19-000001", ".txt">> }

SeqsUpTo(S, n) == UNION { [1..k -> S] : k \in 0..n }

FilingRows(f) ==
    { [Filings |-> t, Description |-> x.Description, FilingDate |-> x.FilingDate]
      : t \in ListedFilingTypes(f), x \in ListedFilings }
DocRows(f) == [Type : ListedDocTypes(f), Document : Documents]

NoRows == <<>>

\* a browse page: how many <table> elements it holds and, when it holds the
\* third, that table's rows, each filing listed once
IndexPages(f) ==
    { [ntables |-> 2, rows |-> NoRows] } \cup
    { [ntables |-> 3, rows |-> r] :
        r \in { s \in SeqsUpTo(FilingRows(f), MaxFilings) :
                  \A i, j \in DOMAIN s : i # j => s[i].Description # s[j].Description } }

\* a document-listing page: how many tables and the rows of the first
DocsPages(f) ==
    { [ntables |-> 0, rows |-> NoRows] } \cup
    { [ntables |-> 1, rows |-> r] : r \in SeqsUpTo(DocRows(f), MaxDocRows) }

NoPage == [ntables |-> 0, rows |-> NoRows]

\* what requests.get does: raises (no HTTP response), or returns a response
\* with a status code and, for 200, a page
Responses(pages) ==
    { [raised |-> TRUE, status_code |-> 0, page |-> NoPage] } \cup
    { [raised |-> FALSE, status_code |-> c, page |-> NoPage] : c \in FailureCodes } \cup
    { [raised |-> FALSE, status_code |-> OK, page |-> p] : p \in pages }

----------------------------------------------------------------------------
(* scrape_reports.py: the parts of Scrape10K, Scrape10Q and ScrapeS1 *)

Root == <<".">>

\* directory = str(cik) + "_" + ticker
Directory(cik, ticker) == cik \o <<"_", ticker>>

\* as os.makedirs(d, exist_ok=True) would: never raises
Mkdir_ExistOk(ds, d) == [raised |-> FALSE, dirs |-> ds \cup {d}]

\* os.mkdir(d): raises OSError when d exists, creates it otherwise
Mkdir(ds, d) == IF d \in ds THEN [raised |-> TRUE, dirs |-> ds]
                ELSE [raised |-> FALSE, dirs |-> ds \cup {d}]

\* the removal left out
Rmdir_Keeps(ds, d) == ds

\* os.rmdir(d)
Rmdir(ds, d) == ds \ {d}

browse_url_base(f) ==
    CASE f = "10-K" -> "https://www.sec.gov/cgi-bin/browse-edgar?action=getcompany&CIK=%s&type=10-K"
      [] f = "10-Q" -> "https://www.sec.gov/cgi-bin/browse-edgar?action=getcompany&CIK=%s&type=10-Q&count=1000"
      [] f = "S-1"  -> "https://www.sec.gov/cgi-bin/browse-edgar?action=getcompany&CIK=%s&type=S-1"
filing_url_base == "http://www.sec.gov/Archives/edgar/data/%s/%s-index.html"
doc_url_base == "http://www.sec.gov/Archives/edgar/data/%s/%s/%s"

\* base % args: a URL is its template and the strings put into it
BrowseUrl(f, cik) == [base |-> browse_url_base(f), args |-> <<cik>>]
FilingUrl(cik, acc_no) == [base |-> filing_url_base, args |-> <<cik, acc_no>>]
DocUrl(cik, acc_no, name) ==
    [base |-> doc_url_base, args |-> <<cik, SelectSeq(acc_no, LAMBDA t : t # "-"), name>>]
NoUrl == [base |-> "", args |-> <<>>]

\* the text handed to WriteLogFile
RequestFailed(status_code, url) ==
    [text |-> "Request failed with error code", code |-> status_code, url |-> url,
     cik |-> <<>>, acc_no |-> <<>>]
Unavailable(cik, acc_no) ==
    [text |-> "File is unavailable", code |-> 0, url |-> NoUrl, cik |-> cik, acc_no |-> acc_no]

\* WriteLogFile: open(log_file_name, "a"), write
WriteLogFile(lg, log_file_name, text) == [lg EXCEPT ![log_file_name] = Append(@, text)]

\* the form types each crawl keeps
MatchSet10K == {"10-K", "10-K405"}
MatchSet10Q == {"10-Q"}
MatchSetS1 == {"S-1"}
MatchSet(f) == CASE f = "10-K" -> MatchSet10K [] f = "10-Q" -> MatchSet10Q [] f = "S-1" -> MatchSetS1

\* x.replace('\xa0',' ').split('Acc-no: ')
AccParts(description) == Split(Replace(description, NBSP, SP), <<"Acc-no:", SP>>)
\* ...[1].split(' ')[0]; [1] raises IndexError when the marker is absent
AccNoRaises(description) == Len(AccParts(description)) < 2
\* the second split left out
AccNo_WholeRest(description) == AccParts(description)[2]

AccNo(description) == Split(AccParts(description)[2], <<SP>>)[1]

\* the filter left out: every listed row kept
FilterFilings_KeepsAll(rows, f) == rows

\* filings_table[filings_table['Filings'] is in the match set]
FilterFilings(rows, f) == SelectSeq(rows, LAMBDA r : r.Filings \in MatchSet(f))

\* from the response text to the filings the loop iterates over
ParseIndex(page, f) ==
    IF page.ntables < 3 THEN [kind |-> "no_table", table |-> <<>>]
    ELSE LET kept == FilterFilings(page.rows, f)
         IN IF Len(kept) = 0 THEN [kind |-> "no_filings", table |-> <<>>]
            ELSE IF \E i \in 1..Len(kept) : AccNoRaises(kept[i].Description)
                 THEN [kind |-> "IndexError", table |-> <<>>]
                 ELSE [kind |-> "filings",
                       table |-> [i \in 1..Len(kept) |->
                                    [Acc_No |-> AccNo(kept[i].Description),
                                     FilingDate |-> kept[i].FilingDate]]]

\* the filter left out: every row of the document table kept
FilterDocs_KeepsAll(rows, f) == rows

\* docs_table[docs_table['Type'] is in the match set]
FilterDocs(rows, f) == SelectSeq(rows, LAMBDA r : r.Type \in MatchSet(f))

\* as docs_table.iloc[-1] would
FirstRow_Last(rows) == rows[Len(rows)]

\* docs_table.iloc[0]
FirstRow(rows) == rows[1]

\* from the document-listing page to the document to request
SelectDocument(page, f) ==
    IF page.ntables = 0 THEN [kind |-> "no_table", docname |-> NaN]
    ELSE LET kept == FilterDocs(page.rows, f)
         IN IF Len(kept) = 0 THEN [kind |-> "no_match", docname |-> NaN]
            ELSE IF PyStr(FirstRow(kept).Document) = <<"nan">>
                 THEN [kind |-> "unavailable", docname |-> NaN]
                 ELSE [kind |-> "selected", docname |-> FirstRow(kept).Document]

\* filename = cik + '_' + date + extension
FileName10K(cik, date, name) ==
    IF Contains(name, ".txt") THEN cik \o <<"_", date, ".txt">> ELSE cik \o <<"_", date, ".html">>
FileName10Q(cik, date, name) ==
    IF Contains(name, ".txt") THEN cik \o <<"_", date, ".txt">> ELSE cik \o <<"_", date, ".html">>
\* the S-1 files named as the 10-K files are
FileNameS1_NoInfix(cik, date, name) == FileName10K(cik, date, name)

FileNameS1(cik, date, name) ==
    IF Contains(name, ".txt") THEN cik \o <<"_", date, "_s1", ".txt">>
    ELSE cik \o <<"_", date, "_s1", ".html">>
FileName(f, cik, date, name) ==
    CASE f = "10-K" -> FileName10K(cik, date, name)
      [] f = "10-Q" -> FileName10Q(cik, date, name)
      [] f = "S-1"  -> FileNameS1(cik, date, name)

\* open(filename, 'a'); write(text); close(): in directory d
NoFiles == <<>>
\* as open(filename, 'w') would: the file started anew
AppendFile_Truncates(fs, d, filename, text) ==
    [fs EXCEPT ![d] = (filename :> <<text>>) @@ fs[d]]

AppendFile(fs, d, filename, text) ==
    LET old == IF filename \in DOMAIN fs[d] THEN fs[d][filename] ELSE <<>>
    IN [fs EXCEPT ![d] = (filename :> Append(old, text)) @@ fs[d]]

----------------------------------------------------------------------------
(* What the history records of a response: facts about the page served,    *)
(* read off the page itself and not off what the crawler made of it        *)

RequestedTypes(f) ==
    CASE f = "10-K" -> {"10-K", "10-K405"} [] f = "10-Q" -> {"10-Q"} [] f = "S-1" -> {"S-1"}

HasMarker(description) ==
    \E i \in 1..(Len(description) - 1) :
        description[i] = "Acc-no:" /\ description[i + 1] \in {SP, NBSP}

\* the accession number a description gives: what stands between the
\* separator after the first marker and the next separator or the end
MarkedToken(description) ==
    LET m == CHOOSE i \in 1..(Len(description) - 1) :
                 /\ description[i] = "Acc-no:" /\ description[i + 1] \in {SP, NBSP}
                 /\ \A j \in 1..(i - 1) : ~(description[j] = "Acc-no:" /\ description[j + 1] \in {SP, NBSP})
        stops == {j \in (m + 2)..Len(description) : description[j] \in {SP, NBSP}}
        e == IF stops = {} THEN Len(description)
             ELSE (CHOOSE j \in stops : \A k \in stops : j <= k) - 1
    IN SubSeq(description, m + 2, e)

NoFacts == [ntables |-> 0, requested |-> 0, unmarked |-> 0, first |-> NaN, later |-> FALSE,
            tokens |-> <<>>]

\* of a browse page: its tables, its rows of a requested form type, and how
\* many of those lack the accession marker
IndexFacts(page, f) ==
    LET req == {i \in DOMAIN page.rows : page.rows[i].Filings \in RequestedTypes(f)}
    IN [ntables |-> page.ntables, requested |-> Cardinality(req),
        unmarked |-> Cardinality({i \in req : ~HasMarker(page.rows[i].Description)}),
        first |-> NaN, later |-> FALSE,
        tokens |-> LET marked == SelectSeq(page.rows, LAMBDA r : r.Filings \in RequestedTypes(f)
                                                                  /\ HasMarker(r.Description))
                   IN [i \in 1..Len(marked) |-> MarkedToken(marked[i].Description)]]

\* of a document-listing page: its tables, whether it has a row of a requested
\* type, the Document cell of the first of them in table order and, when that
\* cell is empty, whether a later one has a document
DocFacts(page, f) ==
    LET req == {i \in DOMAIN page.rows : page.rows[i].Type \in RequestedTypes(f)}
        m == IF req = {} THEN 0 ELSE CHOOSE i \in req : \A j \in req : i <= j
    IN [ntables |-> page.ntables, requested |-> IF req = {} THEN 0 ELSE 1, unmarked |-> 0,
        first |-> IF req = {} THEN NaN ELSE page.rows[m].Document,
        later |-> /\ req # {}
                  /\ page.rows[m].Document = NaN
                  /\ \E i \in req : i > m /\ page.rows[i].Document # NaN,
        tokens |-> <<>>]

Request(kind, url, res) ==
    [kind |-> kind, url |-> url, raised |-> res.raised, status_code |-> res.status_code,
     facts |-> IF res.raised \/ res.status_code # OK THEN NoFacts ELSE res.facts]

----------------------------------------------------------------------------
(* scrape_reports.py: RemoveNumericalTables and RemoveTags                  *)
(*                                                                         *)
(* A parsed document is its <table> elements 1..n in document order:       *)
(* parent[i] is the table that holds table i (0: none, the table stands in *)
(* the body), text[i] the characters of table i outside its inner tables,  *)
(* and cut the tables extract() has taken out of their parent. A table     *)
(* taken out keeps its own inner tables.                                   *)

NL == "\n"
Words == [i \in 1..17 |-> "w"]
Three == <<"1", "2", "3">>
Short == <<"a", "b">>
Seven == <<"7">>
TableTexts == {<<>>, Words, Three, Short, Seven}
BodyText == <<"S", "-", NL, "x", NBSP>>

\* the tables i stands in, outermost last, as the document was parsed
RECURSIVE Ancestors(_, _)
Ancestors(parent, i) == IF i = 0 THEN {} ELSE {parent[i]} \cup Ancestors(parent, parent[i])

\* what the parser can hand over: up to MaxTables tables, nested in any way
Soups ==
    UNION { { [text |-> t, parent |-> q, cut |-> {}, body |-> BodyText] :
                t \in [1..n -> TableTexts],
                q \in { r \in [1..n -> 0..(n - 1)] :
                          /\ \A i \in 1..n : r[i] < i
                          /\ \A i \in 2..n : r[i] \in {i - 1} \cup Ancestors(r, i - 1) } }
            : n \in 0..MaxTables }
NoSoup == [text |-> <<>>, parent |-> <<>>, cut |-> {}, body |-> <<>>]

\* table j is table i or stands, not taken out, inside it
RECURSIVE IsUnder(_, _, _)
IsUnder(s, j, i) ==
    \/ j = i
    \/ /\ j \notin s.cut /\ s.parent[j] # 0
       /\ IsUnder(s, s.parent[j], i)

\* table j is part of the document
RECURSIVE InTree(_, _)
InTree(s, j) == j \notin s.cut /\ (s.parent[j] = 0 \/ InTree(s, s.parent[j]))

\* x.get_text(): the text of the table and of all it holds, in document order
RECURSIVE TextFrom(_, _, _)
TextFrom(s, i, j) ==
    IF j > Len(s.text) THEN <<>>
    ELSE (IF IsUnder(s, j, i) THEN s.text[j] ELSE <<>>) \o TextFrom(s, i, j + 1)
get_text(s, x) == TextFrom(s, x, x)

\* soup.get_text(): the text of the whole document
RECURSIVE SoupTextFrom(_, _)
SoupTextFrom(s, j) ==
    IF j > Len(s.text) THEN <<>>
    ELSE (IF InTree(s, j) THEN s.text[j] ELSE <<>>) \o SoupTextFrom(s, j + 1)
soup_get_text(s) == s.body \o SoupTextFrom(s, 1)

\* char.isdigit()
isdigit(char) == char \in {"0", "1", "2", "3", "4", "5", "6", "7", "8", "9"}

\* GetDigitPercentage: numbers/length as a fraction, 1 for the empty string
GetDigitPercentage(tablestring) ==
    IF Len(tablestring) > 0
    THEN [numbers |-> Cardinality({i \in 1..Len(tablestring) : isdigit(tablestring[i])}),
          length |-> Len(tablestring)]
    ELSE [numbers |-> 1, length |-> 1]

\* as `>= 0.15` would
Numerical_AtLeast(tablestring) ==
    LET p == GetDigitPercentage(tablestring) IN 100 * p.numbers >= 15 * p.length

\* GetDigitPercentage(x.get_text()) > 0.15
Numerical(tablestring) ==
    LET p == GetDigitPercentage(tablestring) IN 100 * p.numbers > 15 * p.length

\* the list the other way round: inner tables before the tables around them
find_all_Reversed(s) ==
    LET RECURSIVE Back(_)
        Back(j) == IF j < 1 THEN <<>>
                   ELSE (IF InTree(s, j) THEN <<j>> ELSE <<>>) \o Back(j - 1)
    IN Back(Len(s.text))

\* soup.find_all('table'): the tables of the document, in document order
RECURSIVE FindFrom(_, _)
FindFrom(s, j) ==
    IF j > Len(s.text) THEN <<>>
    ELSE (IF InTree(s, j) THEN <<j>> ELSE <<>>) \o FindFrom(s, j + 1)
find_all(s) == FindFrom(s, 1)

\* x.extract()
extract(s, x) == [s EXCEPT !.cut = @ \cup {x}]

\* as a loop that removes from the list it iterates over would: the table
\* after one taken out is passed over
RECURSIVE ExtractEach_SkipsNext(_, _)
ExtractEach_SkipsNext(s, tables) ==
    IF tables = <<>> THEN s
    ELSE IF Numerical(get_text(s, Head(tables)))
         THEN ExtractEach_SkipsNext(extract(s, Head(tables)),
                                    IF Len(tables) > 1 THEN Tail(Tail(tables)) ELSE <<>>)
         ELSE ExtractEach_SkipsNext(s, Tail(tables))

\* [x.extract() for x in tables if GetDigitPercentage(x.get_text())>0.15]:
\* each table of the list in turn, its text taken when its turn comes
RECURSIVE ExtractEach(_, _)
ExtractEach(s, tables) ==
    IF tables = <<>> THEN s
    ELSE ExtractEach(IF Numerical(get_text(s, Head(tables)))
                     THEN extract(s, Head(tables)) ELSE s,
                     Tail(tables))

RemoveNumericalTables(s) == ExtractEach(s, find_all(s))

\* unicodedata.normalize('NFKD', text), on the characters of the model: the
\* non-breaking space becomes a space
Normalize(text) == Replace(text, NBSP, SP)

\* RemoveTags: get_text, newlines to spaces, NFKD
RemoveTags(s) == Normalize(Replace(soup_get_text(s), NL, SP))

----------------------------------------------------------------------------
(* The crawl *)

Forms == {"10-K", "10-Q", "S-1"}

\* requests.get of a browse page and what the code parses out of the response
\* text (soup.find_all('table'), pd.read_html, the filter, the accession
\* numbers); of a document-listing page and the document the code selects
IndexResults ==
    [f \in Forms |->
        { [raised |-> r.raised, status_code |-> r.status_code,
           parsed |-> ParseIndex(r.page, f), facts |-> IndexFacts(r.page, f)]
          : r \in Responses(IndexPages(f)) }]
ListingResults ==
    [f \in Forms |->
        { [raised |-> r.raised, status_code |-> r.status_code,
           sel |-> SelectDocument(r.page, f), facts |-> DocFacts(r.page, f)]
          : r \in Responses(DocsPages(f)) }]
DocResults ==
    { [raised |-> r.raised, status_code |-> r.status_code, facts |-> NoFacts]
      : r \in Responses({NoPage}) }

Up == <<"..">>
\* as with os.chdir('..') left out: the process stays where it is
Chdir_UpStays(from, path) == IF path = Up THEN from ELSE path

\* os.chdir(path), from the root or from a company directory
Chdir(from, path) == IF path = Up THEN Root ELSE path

Rows == CikTicker(ticker_cik_df)
cik == Rows[row].cik
ticker == Rows[row].ticker
directory == Directory(cik, ticker)
log_file_name == run
AllDirs == {Directory(Rows[i].cik, Rows[i].ticker) : i \in DOMAIN Rows}

Init ==
    /\ form \in Forms
    /\ ticker_cik_df \in {AddSicToCikDict(BaseDf, sheet) : sheet \in SicSheets}
    /\ run = 0
    /\ row = 0
    /\ pc = "idle"
    /\ cwd = Root
    /\ dirs = {}
    /\ files = <<>>
    /\ logs = <<>>
    /\ filings_table = <<>>
    /\ idx = 0
    /\ docname = NaN
    /\ net = <<>>
    /\ nreq = 0
    /\ outcome = "none"
    /\ mkdirs = <<>>
    /\ ended = {}
    /\ calls = <<>>
    /\ interrupted = {}
    /\ written = {}
    /\ soup = NoSoup /\ doc = NoSoup /\ passes = 0
    /\ rawtext = <<>> /\ all_raw_text = [kind |-> "absent"]
    /\ stage = "idle" /\ converts = 0 /\ reads = <<>> /\ converted = <<>>
    /\ cik_dict = <<>> /\ cik_sic_xlsx = <<>>
    /\ procs = <<>> /\ events = {}

\* what the history keeps of a call that ended at the index page
Ended(how) == [dir |-> directory, run |-> run, how |-> how]

\* `return` of a Scrape call: the driver's loop goes to the next row
Return(how) ==
    /\ pc' = "driver"
    /\ row' = row + 1
    /\ outcome' = how
    /\ filings_table' = <<>>
    /\ idx' = 0
    /\ docname' = NaN

\* an exception nothing catches: the process ends with a traceback
Raise(exception) ==
    /\ pc' = "crashed"
    /\ outcome' = exception
    /\ UNCHANGED <<row, filings_table, idx, docname>>

\* what the history keeps of a call that an exception ended: the company
\* directory, the session, and the files the directory held
Interruptions ==
    interrupted' = IF pc' = "crashed"
                   THEN interrupted \cup {[dir |-> directory, run |-> run, files |-> files[directory]]}
                   ELSE interrupted

\* what the history keeps of a write: the working directory it happened in
\* and the company being crawled
LogAt(at) == written' = written \cup {[kind |-> "log", cwd |-> at, dir |-> directory]}
DocAt(at) == written' = written \cup {[kind |-> "doc", cwd |-> at, dir |-> directory]}

\* as `break` would: the loop is left
Continue_Breaks ==
    /\ pc' = "loop"
    /\ idx' = Len(filings_table) + 1
    /\ docname' = NaN
    /\ UNCHANGED <<row, outcome, filings_table>>

\* `continue` of the per-filing loop
Continue ==
    /\ pc' = "loop"
    /\ idx' = idx + 1
    /\ docname' = NaN
    /\ UNCHANGED <<row, outcome, filings_table>>

\* RunScrape10K / RunScrape10Q / RunScrapeS1 up to the loop: a session starts
\* in the form-type root with a new log file
RunScrape ==
    /\ UNCHANGED sanitizer
    /\ pc \in {"idle", "crashed"}
    /\ run < MaxRuns
    /\ run' = run + 1
    /\ cwd' = Root
    /\ logs' = Append(logs, <<>>)
    /\ row' = 1
    /\ pc' = "driver"
    /\ outcome' = "none"
    /\ net' = <<>>
    /\ mkdirs' = [d \in AllDirs |-> 0]
    /\ filings_table' = <<>>
    /\ idx' = 0
    /\ docname' = NaN
    /\ calls' = <<>>
    /\ UNCHANGED <<form, ticker_cik_df, dirs, files, nreq, ended, interrupted, written>>

\* the driver's loop is exhausted
RunScrapeEnd ==
    /\ UNCHANGED sanitizer
    /\ pc = "driver"
    /\ row > Len(Rows)
    /\ pc' = "idle"
    /\ UNCHANGED <<form, ticker_cik_df, run, row, cwd, dirs, files, logs, filings_table,
                   idx, docname, net, nreq, outcome, mkdirs, ended, calls, interrupted,
                   written>>

\* Scrape is called for the next row: os.mkdir, and either "Already scraped"
\* or os.chdir(directory)
ScrapeEnter ==
    /\ UNCHANGED sanitizer
    /\ pc = "driver"
    /\ row <= Len(Rows)
    /\ net' = <<>>
    /\ calls' = Append(calls, row)
    /\ LET made == Mkdir(dirs, directory)
       IN IF made.raised
          THEN /\ Return("already")
               /\ UNCHANGED <<cwd, dirs, files, mkdirs>>
          ELSE /\ dirs' = made.dirs
               /\ files' = (directory :> NoFiles) @@ files
               /\ mkdirs' = [mkdirs EXCEPT ![directory] = @ + 1]
               /\ cwd' = Chdir(cwd, directory)
               /\ pc' = "index"
               /\ UNCHANGED <<row, outcome, filings_table, idx, docname>>
    /\ UNCHANGED <<form, ticker_cik_df, run, logs, nreq, ended, interrupted, written>>

\* the browse page is requested and parsed
IndexFetch ==
    /\ UNCHANGED sanitizer
    /\ pc = "index"
    /\ nreq < MaxRequests
    /\ \E res \in IndexResults[form] :
         /\ net' = Append(net, Request("index", BrowseUrl(form, cik), res))
         /\ nreq' = nreq + 1
         /\ IF res.raised
            THEN /\ Raise("ConnectionError")
                 /\ UNCHANGED <<cwd, dirs, files, logs, ended, written>>
            ELSE IF res.status_code # OK
            THEN /\ cwd' = Chdir(cwd, Up)
                 /\ dirs' = Rmdir(dirs, directory)
                 /\ files' = [d \in Rmdir(dirs, directory) |-> files[d]]
                 /\ ended' = ended \cup {Ended("index_failed")}
                 /\ logs' = WriteLogFile(logs, log_file_name,
                                         RequestFailed(res.status_code, BrowseUrl(form, cik)))
                 /\ LogAt(Chdir(cwd, Up))
                 /\ Return("index_failed")
            ELSE LET parsed == res.parsed
                 IN CASE parsed.kind \in {"no_table", "no_filings"} ->
                           /\ cwd' = Chdir(cwd, Up)
                           /\ Return(parsed.kind)
                           /\ ended' = ended \cup {Ended(parsed.kind)}
                           /\ UNCHANGED <<dirs, files, logs, written>>
                      [] parsed.kind = "IndexError" ->
                           /\ Raise("IndexError")
                           /\ UNCHANGED <<cwd, dirs, files, logs, ended, written>>
                      [] parsed.kind = "filings" ->
                           /\ filings_table' = parsed.table
                           /\ idx' = 1
                           /\ pc' = "loop"
                           /\ UNCHANGED <<row, outcome, docname, cwd, dirs, files, logs, ended,
                                          written>>
    /\ Interruptions
    /\ UNCHANGED <<form, ticker_cik_df, run, mkdirs, calls>>

acc_no == filings_table[idx].Acc_No

\* one filing of the loop, up to the choice of its document
ListingFetch ==
    /\ UNCHANGED sanitizer
    /\ pc = "loop"
    /\ idx <= Len(filings_table)
    /\ nreq < MaxRequests
    /\ \E res \in ListingResults[form] :
         /\ net' = Append(net, Request("filing", FilingUrl(cik, acc_no), res))
         /\ nreq' = nreq + 1
         /\ IF res.raised
            THEN /\ Raise("ConnectionError")
                 /\ UNCHANGED <<cwd, logs, written>>
            ELSE IF res.status_code # OK
            THEN /\ cwd' = Chdir(Chdir(cwd, Up), directory)
                 /\ logs' = WriteLogFile(logs, log_file_name,
                                         RequestFailed(res.status_code, FilingUrl(cik, acc_no)))
                 /\ LogAt(Chdir(cwd, Up))
                 /\ Continue
            ELSE LET sel == res.sel
                 IN CASE sel.kind \in {"no_table", "no_match"} ->
                           /\ Continue
                           /\ UNCHANGED <<cwd, logs, written>>
                      [] sel.kind = "unavailable" ->
                           /\ cwd' = Chdir(Chdir(cwd, Up), directory)
                           /\ logs' = WriteLogFile(logs, log_file_name, Unavailable(cik, acc_no))
                           /\ LogAt(Chdir(cwd, Up))
                           /\ Continue
                      [] sel.kind = "selected" ->
                           /\ docname' = sel.docname
                           /\ pc' = "doc"
                           /\ UNCHANGED <<row, outcome, filings_table, idx, cwd, logs, written>>
    /\ Interruptions
    /\ UNCHANGED <<form, ticker_cik_df, run, dirs, files, mkdirs, ended, calls>>

\* the document is requested and appended to its file
DocFetch ==
    /\ UNCHANGED sanitizer
    /\ pc = "doc"
    /\ nreq < MaxRequests
    /\ \E res \in DocResults :
         /\ net' = Append(net, Request("doc", DocUrl(cik, acc_no, docname), res))
         /\ nreq' = nreq + 1
         /\ IF res.raised
            THEN /\ Raise("ConnectionError")
                 /\ UNCHANGED <<cwd, logs, files, written>>
            ELSE IF res.status_code # OK
            THEN /\ cwd' = Chdir(Chdir(cwd, Up), directory)
                 /\ logs' = WriteLogFile(logs, log_file_name,
                                         RequestFailed(res.status_code, DocUrl(cik, acc_no, docname)))
                 /\ LogAt(Chdir(cwd, Up))
                 /\ Continue
                 /\ UNCHANGED files
            ELSE /\ files' = AppendFile(files, cwd,
                                        FileName(form, cik, filings_table[idx].FilingDate, docname),
                                        DocUrl(cik, acc_no, docname))
                 /\ DocAt(cwd)
                 /\ Continue
                 /\ UNCHANGED <<cwd, logs>>
    /\ Interruptions
    /\ UNCHANGED <<form, ticker_cik_df, run, dirs, mkdirs, ended, calls>>

\* the per-filing loop is exhausted: back to the root, return
LoopEnd ==
    /\ UNCHANGED sanitizer
    /\ pc = "loop"
    /\ idx > Len(filings_table)
    /\ cwd' = Chdir(cwd, Up)
    /\ Return("done")
    /\ UNCHANGED <<form, ticker_cik_df, run, dirs, files, logs, net, nreq, mkdirs, ended, calls,
                   interrupted, written>>

Next ==
    \/ RunScrape
    \/ RunScrapeEnd
    \/ ScrapeEnter
    \/ IndexFetch
    \/ ListingFetch
    \/ DocFetch
    \/ LoopEnd

Spec == Init /\ [][Next]_vars

----------------------------------------------------------------------------
(* The cleaning of one document *)

\* bs.BeautifulSoup(file.read(), "lxml")
InitNoise ==
    /\ form = "S-1"
    /\ ticker_cik_df = BaseDf
    /\ run = 0 /\ row = 0 /\ pc = "idle" /\ cwd = Root
    /\ dirs = {} /\ files = <<>> /\ logs = <<>>
    /\ filings_table = <<>> /\ idx = 0 /\ docname = NaN
    /\ net = <<>> /\ nreq = 0 /\ outcome = "none"
    /\ mkdirs = <<>> /\ ended = {} /\ calls = <<>> /\ interrupted = {}
    /\ written = {}
    /\ soup \in Soups
    /\ doc = soup
    /\ passes = 0
    /\ rawtext = <<>> /\ all_raw_text = [kind |-> "absent"]
    /\ stage = "idle" /\ converts = 0 /\ reads = <<>> /\ converted = <<>>
    /\ cik_dict = <<>> /\ cik_sic_xlsx = <<>>
    /\ procs = <<>> /\ events = {}

\* soup = RemoveNumericalTables(soup)
Filter ==
    /\ passes < MaxPasses
    /\ soup' = RemoveNumericalTables(soup)
    /\ passes' = passes + 1
    /\ UNCHANGED doc
    /\ UNCHANGED <<crawl, pipeline, lookup, concurrent>>

NextNoise == Filter

SpecNoise == InitNoise /\ [][NextNoise]_vars

----------------------------------------------------------------------------
(* scrape_reports.py: ConvertToText, ConvertHTML and AggregateRawText, over *)
(* the directories an S-1 crawl has left. A raw file is held as the         *)
(* document BeautifulSoup parses out of it.                                 *)

\* a page with a table of words and a table of digits, and a text document
HtmlDoc(t) == [text |-> <<Words, Three>>, parent |-> <<0, 0>>, cut |-> {},
               body |-> BodyText \o <<t>>]
TxtDoc(t) == [text |-> <<>>, parent |-> <<>>, cut |-> {}, body |-> <<"p", NL, t>>]

\* the files the crawl may have left in the directory of a company: none,
\* an HTML document, an HTML and a text document filed the same day, an
\* HTML document and a hidden file
HiddenName == <<".", "DS_Store">>
HtmlName(c) == FileNameS1(c, "2019-03-01", <<"d10k", ".htm">>)
TxtName(c) == FileNameS1(c, "2019-03-01", <<"d10k", ".txt">>)
LaterName(c) == FileNameS1(c, "2020-03-01", <<"d10k", ".htm">>)
RawSets(c, t) ==
    { NoFiles,
      HtmlName(c) :> HtmlDoc(t),
      (HtmlName(c) :> HtmlDoc(t)) @@ (TxtName(c) :> TxtDoc(t)),
      (HtmlName(c) :> HtmlDoc(t)) @@ (HiddenName :> TxtDoc(t)) }

\* the row of the table a directory is named after
RowOf(d) == CHOOSE r \in {Rows[i] : i \in DOMAIN Rows} : Directory(r.cik, r.ticker) = d

\* fname.startswith('.')
Hidden(fname) == Len(fname) > 0 /\ fname[1] = "."

\* filename.replace('.html', '.txt')
NewFileName(filename) == Replace(filename, ".html", ".txt")

\* the test left out: every file taken as not yet cleaned
Cleaned_Never(new_filename, text_file_list) == FALSE

\* new_filename in text_file_list
Cleaned(new_filename, text_file_list) == new_filename \in text_file_list

\* [fname for fname in os.listdir() if not (hidden or a directory)], in any
\* order the system may list the names (fs holds no directory)
FileLists(fs) ==
    LET names == {n \in DOMAIN fs : ~Hidden(n)}
    IN { s \in [1..Cardinality(names) -> names] :
           \A i, j \in DOMAIN s : i # j => s[i] # s[j] }

\* the loop of ConvertHTML over file_list: a file whose new name is in
\* rawtext is passed over, any other is opened, parsed, cleaned and written
RECURSIVE CleanEach(_, _, _, _)
CleanEach(fs, cleaned, opened, file_list) ==
    IF file_list = <<>> THEN [rawtext |-> cleaned, reads |-> opened]
    ELSE LET filename == Head(file_list)
             new_filename == NewFileName(filename)
         IN IF Cleaned(new_filename, DOMAIN cleaned)
            THEN CleanEach(fs, cleaned, opened, Tail(file_list))
            ELSE CleanEach(fs,
                           (new_filename :> RemoveTags(RemoveNumericalTables(fs[filename])))
                               @@ cleaned,
                           Append(opened, filename), Tail(file_list))

\* shutil.copy(src, dest): into dest when that is a directory, onto dest
\* when it is a file or nothing
Copy(dest, file_name, content) ==
    IF dest.kind = "dir"
    THEN [kind |-> "dir", files |-> (file_name :> content) @@ dest.files]
    ELSE [kind |-> "file", content |-> content]

\* the loop of AggregateRawText over the file_list of one company
RECURSIVE CopyEach(_, _, _)
CopyEach(dest, cleaned, file_list) ==
    IF file_list = <<>> THEN dest
    ELSE CopyEach(Copy(dest, Head(file_list), cleaned[Head(file_list)]), cleaned,
                  Tail(file_list))

RawText == <<"/", "rawtext">>

\* the form-type root after an S-1 crawl: some of the company directories,
\* with raw files, no rawtext in them, and all_raw_text made by hand or not
InitSanitize ==
    /\ form = "S-1"
    /\ ticker_cik_df \in {AddSicToCikDict(BaseDf, sheet) : sheet \in SicSheets}
    /\ run = 0 /\ row = 0 /\ pc = "idle" /\ cwd = Root
    /\ dirs \in SUBSET AllDirs
    /\ files \in { f \in [dirs -> UNION {RawSets(Rows[i].cik, Rows[i].ticker) : i \in DOMAIN Rows}] :
                     \A d \in dirs : f[d] \in RawSets(RowOf(d).cik, RowOf(d).ticker) }
    /\ logs = <<>>
    /\ filings_table = <<>> /\ idx = 0 /\ docname = NaN
    /\ net = <<>> /\ nreq = 0 /\ outcome = "none"
    /\ mkdirs = <<>> /\ ended = {} /\ calls = <<>> /\ interrupted = {}
    /\ written = {}
    /\ soup = NoSoup /\ doc = NoSoup /\ passes = 0
    /\ rawtext = <<>>
    /\ all_raw_text \in {[kind |-> "absent"], [kind |-> "dir", files |-> NoFiles]}
    /\ stage = "idle" /\ converts = 0 /\ reads = <<>> /\ converted = <<>>
    /\ cik_dict = <<>> /\ cik_sic_xlsx = <<>>
    /\ procs = <<>> /\ events = {}

\* what conversion and aggregation leave alone
kept == <<form, ticker_cik_df, run, pc, dirs, logs, filings_table, idx, docname,
          net, nreq, outcome, mkdirs, ended, calls, interrupted, written, noise, lookup,
          concurrent>>

\* a later S-1 crawl writes the document of a new filing into a directory
NewRawFile ==
    /\ stage = "idle"
    /\ \E d \in dirs :
          LET name == LaterName(RowOf(d).cik) IN
          /\ name \notin DOMAIN files[d]
          /\ files' = [files EXCEPT ![d] = (name :> HtmlDoc(RowOf(d).ticker)) @@ files[d]]
    /\ UNCHANGED <<row, cwd, pipeline, kept>>

\* ConvertToText up to its loop: os.chdir(PATHNAME_S1)
ConvertToText ==
    /\ stage = "idle"
    /\ converts < MaxConverts
    /\ stage' = "ConvertToText"
    /\ row' = 1
    /\ cwd' = Root
    /\ UNCHANGED <<files, rawtext, all_raw_text, converts, reads, converted, kept>>

\* ConvertHTML(directory), for the next row of the table
ConvertHTML ==
    /\ stage = "ConvertToText"
    /\ row <= Len(Rows)
    /\ IF directory \notin dirs
       THEN \* os.chdir(cik) raises FileNotFoundError: return
            /\ reads' = <<>>
            /\ UNCHANGED <<rawtext, converted>>
       ELSE \E file_list \in FileLists(files[directory]) :
              LET made == IF directory \in DOMAIN rawtext THEN rawtext[directory]
                          ELSE NoFiles
                  done == CleanEach(files[directory], made, <<>>, file_list)
              IN /\ rawtext' = (directory :> done.rawtext) @@ rawtext
                 /\ reads' = done.reads
                 /\ converted' = (directory :> files[directory]) @@ converted
    /\ cwd' = Chdir(Chdir(cwd, directory), Up)
    /\ row' = row + 1
    /\ UNCHANGED <<files, all_raw_text, stage, converts, kept>>

\* ConvertToText returns at the end of the table
ConvertToTextEnd ==
    /\ stage = "ConvertToText"
    /\ row > Len(Rows)
    /\ stage' = "idle"
    /\ converts' = converts + 1
    /\ UNCHANGED <<row, cwd, files, rawtext, all_raw_text, reads, converted, kept>>

\* AggregateRawText up to its loop: dest = os.path.join(pathname, 'all_raw_text')
AggregateRawText ==
    /\ stage = "idle"
    /\ stage' = "AggregateRawText"
    /\ row' = 1
    /\ UNCHANGED <<cwd, files, rawtext, all_raw_text, converts, reads, converted, kept>>

\* one turn of the loop of AggregateRawText: os.chdir(company_path) and the
\* copy of each file; with no rawtext directory the chdir raises and nothing
\* catches it
AggregateCompany ==
    /\ stage = "AggregateRawText"
    /\ row <= Len(Rows)
    /\ IF directory \notin DOMAIN rawtext
       THEN /\ stage' = "FileNotFoundError"
            /\ UNCHANGED <<row, cwd, all_raw_text>>
       ELSE \E file_list \in FileLists(rawtext[directory]) :
              /\ cwd' = directory \o RawText
              /\ all_raw_text' = CopyEach(all_raw_text, rawtext[directory], file_list)
              /\ row' = row + 1
              /\ UNCHANGED stage
    /\ UNCHANGED <<files, rawtext, converts, reads, converted, kept>>

\* AggregateRawText returns at the end of the table
AggregateEnd ==
    /\ stage = "AggregateRawText"
    /\ row > Len(Rows)
    /\ stage' = "done"
    /\ UNCHANGED <<row, cwd, files, rawtext, all_raw_text, converts, reads, converted, kept>>

NextSanitize ==
    \/ NewRawFile
    \/ ConvertToText
    \/ ConvertHTML
    \/ ConvertToTextEnd
    \/ AggregateRawText
    \/ AggregateCompany
    \/ AggregateEnd

SpecSanitize == InitSanitize /\ [][NextSanitize]_vars

----------------------------------------------------------------------------
(* get_ticker_cik.py: MapTickerToCik from the frame of the pairs found on    *)
(* to the table it returns                                                  *)

\* the frame made of cik_dict, and the sheet on disk
InitTable ==
    /\ form = "10-K"
    /\ cik_dict \in CikDicts
    /\ cik_sic_xlsx \in Sheets
    /\ ticker_cik_df = cik_dict
    /\ pc = "MapTickerToCik"
    /\ run = 0 /\ row = 0 /\ cwd = Root
    /\ dirs = {} /\ files = <<>> /\ logs = <<>>
    /\ filings_table = <<>> /\ idx = 0 /\ docname = NaN
    /\ net = <<>> /\ nreq = 0 /\ outcome = "none"
    /\ mkdirs = <<>> /\ ended = {} /\ calls = <<>> /\ interrupted = {}
    /\ written = {}
    /\ soup = NoSoup /\ doc = NoSoup /\ passes = 0
    /\ rawtext = <<>> /\ all_raw_text = [kind |-> "absent"]
    /\ stage = "idle" /\ converts = 0 /\ reads = <<>> /\ converted = <<>>
    /\ procs = <<>> /\ events = {}

\* what the building of the table leaves alone
apart == <<form, run, row, cwd, dirs, files, logs, filings_table, idx, docname, net, nreq,
           outcome, mkdirs, ended, calls, interrupted, written, noise, pipeline, lookup,
           concurrent>>

\* sort_values(by='ticker') and drop_duplicates(subset='cik', keep='first')
SortAndDrop ==
    /\ pc = "MapTickerToCik"
    /\ ticker_cik_df' = DropDuplicatesCik(SortValues(ticker_cik_df))
    /\ pc' = "AddSicToCikDict"
    /\ UNCHANGED apart

\* ticker_cik_df = AddSicToCikDict(ticker_cik_df), and the return
AddSic ==
    /\ pc = "AddSicToCikDict"
    /\ ticker_cik_df' = AddSicToCikDict(ticker_cik_df, cik_sic_xlsx)
    /\ pc' = "returned"
    /\ UNCHANGED apart

NextTable ==
    \/ SortAndDrop
    \/ AddSic

SpecTable == InitTable /\ [][NextTable]_vars

----------------------------------------------------------------------------
(* Two crawls of one form type at once: two processes, each running the    *)
(* driver over the same table in the same root, each with its own working  *)
(* directory, loop and log file. A step holds at most one system call on   *)
(* what the processes share (os.mkdir, os.rmdir, the append to a file), so *)
(* the steps interleave as the calls do. Scrape10K stands for the three    *)
(* functions, which differ in the form type and the file names only.       *)

Procs == {1, 2}

\* a process before os.chdir(PATHNAME), and its state when a call returns
Idle == [pc |-> "idle", row |-> 0, cwd |-> Root, filings_table |-> <<>>, idx |-> 0,
         docname |-> NaN]
Returned(p) == [procs[p] EXCEPT !.pc = "driver", !.row = @ + 1, !.cwd = Root,
                                !.filings_table = <<>>, !.idx = 0, !.docname = NaN]
Continued(p) == [procs[p] EXCEPT !.pc = "loop", !.idx = @ + 1, !.docname = NaN]

\* the company of the row process p is at
DirectoryOf(p) == Directory(Rows[procs[p].row].cik, Rows[procs[p].row].ticker)
CikOf(p) == Rows[procs[p].row].cik
AccNoOf(p) == procs[p].filings_table[procs[p].idx].Acc_No

\* what the responses come to for the code
IndexOutcomes ==
    {[raised |-> r.raised, status_code |-> r.status_code, parsed |-> r.parsed] :
        r \in IndexResults[form]}
ListingOutcomes ==
    {[raised |-> r.raised, status_code |-> r.status_code, sel |-> r.sel] :
        r \in ListingResults[form]}
DocOutcomes == {[raised |-> r.raised, status_code |-> r.status_code] : r \in DocResults}

InitConcurrent ==
    /\ form = "10-K"
    /\ ticker_cik_df \in {AddSicToCikDict(BaseDf, sheet) : sheet \in SicSheets}
    /\ procs = [p \in Procs |-> Idle]
    /\ events = {}
    /\ dirs = {} /\ files = <<>> /\ logs = <<>>
    /\ nreq = 0
    /\ run = 0 /\ row = 0 /\ pc = "idle" /\ cwd = Root
    /\ filings_table = <<>> /\ idx = 0 /\ docname = NaN
    /\ net = <<>> /\ outcome = "none"
    /\ mkdirs = <<>> /\ ended = {} /\ calls = <<>> /\ interrupted = {}
    /\ written = {}
    /\ soup = NoSoup /\ doc = NoSoup /\ passes = 0
    /\ rawtext = <<>> /\ all_raw_text = [kind |-> "absent"]
    /\ stage = "idle" /\ converts = 0 /\ reads = <<>> /\ converted = <<>>
    /\ cik_dict = <<>> /\ cik_sic_xlsx = <<>>

\* what the two processes leave alone
single == <<form, ticker_cik_df, run, row, pc, cwd, filings_table, idx, docname, net,
            outcome, mkdirs, ended, calls, interrupted, written, noise, pipeline, lookup>>

\* RunScrape up to the loop: os.chdir(PATHNAME) and the new log file
Launch(p) ==
    /\ procs[p].pc = "idle"
    /\ procs' = [procs EXCEPT ![p] = [@ EXCEPT !.pc = "driver", !.row = 1, !.cwd = Root]]
    /\ logs' = (p :> <<>>) @@ logs
    /\ UNCHANGED <<dirs, files, nreq, events, single>>

\* the driver's loop of p is exhausted
Finish(p) ==
    /\ procs[p].pc = "driver"
    /\ procs[p].row > Len(Rows)
    /\ procs' = [procs EXCEPT ![p] = [@ EXCEPT !.pc = "finished"]]
    /\ UNCHANGED <<dirs, files, logs, nreq, events, single>>

\* Scrape is called for the next row of p: os.mkdir, and either "Already
\* scraped" or os.chdir(directory)
Enter(p) ==
    /\ procs[p].pc = "driver"
    /\ procs[p].row <= Len(Rows)
    /\ LET made == Mkdir(dirs, DirectoryOf(p))
       IN IF made.raised
          THEN /\ procs' = [procs EXCEPT ![p] = Returned(p)]
               /\ UNCHANGED <<dirs, files, events>>
          ELSE /\ dirs' = made.dirs
               /\ files' = (DirectoryOf(p) :> NoFiles) @@ files
               /\ procs' = [procs EXCEPT ![p] =
                               [@ EXCEPT !.pc = "index", !.cwd = Chdir(@, DirectoryOf(p))]]
               /\ events' = events \cup
                     {[kind |-> "mkdir", dir |-> DirectoryOf(p), by |-> p,
                       others |-> {q \in Procs \ {p} : procs[q].cwd = DirectoryOf(p)}]}
    /\ UNCHANGED <<logs, nreq, single>>

\* the browse page is requested and parsed by p
Index(p) ==
    /\ procs[p].pc = "index"
    /\ nreq < MaxRequests
    /\ nreq' = nreq + 1
    /\ \E res \in IndexOutcomes :
         IF res.raised
         THEN /\ procs' = [procs EXCEPT ![p] = [@ EXCEPT !.pc = "crashed"]]
              /\ UNCHANGED <<dirs, files, logs, events>>
         ELSE IF res.status_code # OK
         THEN /\ dirs' = Rmdir(dirs, DirectoryOf(p))
              /\ files' = [d \in Rmdir(dirs, DirectoryOf(p)) |-> files[d]]
              /\ logs' = WriteLogFile(logs, p,
                                      RequestFailed(res.status_code, BrowseUrl(form, CikOf(p))))
              /\ procs' = [procs EXCEPT ![p] = Returned(p)]
              /\ events' = events \cup
                    {[kind |-> "rmdir", dir |-> DirectoryOf(p), by |-> p,
                      others |-> {q \in Procs \ {p} : procs[q].cwd = DirectoryOf(p)}]}
         ELSE CASE res.parsed.kind \in {"no_table", "no_filings"} ->
                     /\ procs' = [procs EXCEPT ![p] = Returned(p)]
                     /\ UNCHANGED <<dirs, files, logs, events>>
                [] res.parsed.kind = "IndexError" ->
                     /\ procs' = [procs EXCEPT ![p] = [@ EXCEPT !.pc = "crashed"]]
                     /\ UNCHANGED <<dirs, files, logs, events>>
                [] res.parsed.kind = "filings" ->
                     /\ procs' = [procs EXCEPT ![p] =
                                     [@ EXCEPT !.pc = "loop", !.idx = 1,
                                               !.filings_table = res.parsed.table]]
                     /\ events' = events \cup
                           {[kind |-> "loop", dir |-> DirectoryOf(p), by |-> p, others |-> {}]}
                     /\ UNCHANGED <<dirs, files, logs>>
    /\ UNCHANGED single

\* one filing of the loop of p, up to the choice of its document
Listing(p) ==
    /\ procs[p].pc = "loop"
    /\ procs[p].idx <= Len(procs[p].filings_table)
    /\ nreq < MaxRequests
    /\ nreq' = nreq + 1
    /\ \E res \in ListingOutcomes :
         IF res.raised
         THEN /\ procs' = [procs EXCEPT ![p] = [@ EXCEPT !.pc = "crashed"]]
              /\ UNCHANGED logs
         ELSE IF res.status_code # OK
         THEN /\ logs' = WriteLogFile(logs, p,
                                      RequestFailed(res.status_code,
                                                    FilingUrl(CikOf(p), AccNoOf(p))))
              /\ procs' = [procs EXCEPT ![p] = Continued(p)]
         ELSE CASE res.sel.kind \in {"no_table", "no_match"} ->
                     /\ procs' = [procs EXCEPT ![p] = Continued(p)]
                     /\ UNCHANGED logs
                [] res.sel.kind = "unavailable" ->
                     /\ logs' = WriteLogFile(logs, p, Unavailable(CikOf(p), AccNoOf(p)))
                     /\ procs' = [procs EXCEPT ![p] = Continued(p)]
                [] res.sel.kind = "selected" ->
                     /\ procs' = [procs EXCEPT ![p] =
                                     [@ EXCEPT !.pc = "doc", !.docname = res.sel.docname]]
                     /\ UNCHANGED logs
    /\ UNCHANGED <<dirs, files, events, single>>

\* the document is requested by p and appended to its file
Document(p) ==
    /\ procs[p].pc = "doc"
    /\ nreq < MaxRequests
    /\ nreq' = nreq + 1
    /\ \E res \in DocOutcomes :
         IF res.raised
         THEN /\ procs' = [procs EXCEPT ![p] = [@ EXCEPT !.pc = "crashed"]]
              /\ UNCHANGED <<logs, files, events>>
         ELSE IF res.status_code # OK
         THEN /\ logs' = WriteLogFile(logs, p,
                                      RequestFailed(res.status_code,
                                                    DocUrl(CikOf(p), AccNoOf(p), procs[p].docname)))
              /\ procs' = [procs EXCEPT ![p] = Continued(p)]
              /\ UNCHANGED <<files, events>>
         ELSE LET filename == FileName(form, CikOf(p),
                                       procs[p].filings_table[procs[p].idx].FilingDate,
                                       procs[p].docname)
              IN /\ files' = AppendFile(files, procs[p].cwd, filename,
                                         DocUrl(CikOf(p), AccNoOf(p), procs[p].docname))
                 /\ events' = events \cup
                       {[kind |-> "append", dir |-> procs[p].cwd, by |-> p, others |-> {}]}
                 /\ procs' = [procs EXCEPT ![p] = Continued(p)]
                 /\ UNCHANGED logs
    /\ UNCHANGED <<dirs, single>>

\* the per-filing loop of p is exhausted: back to the root, return
EndLoop(p) ==
    /\ procs[p].pc = "loop"
    /\ procs[p].idx > Len(procs[p].filings_table)
    /\ procs' = [procs EXCEPT ![p] = Returned(p)]
    /\ UNCHANGED <<dirs, files, logs, nreq, events, single>>

NextConcurrent ==
    \E p \in Procs :
        \/ Launch(p)
        \/ Finish(p)
        \/ Enter(p)
        \/ Index(p)
        \/ Listing(p)
        \/ Document(p)
        \/ EndLoop(p)

SpecConcurrent == InitConcurrent /\ [][NextConcurrent]_vars

----------------------------------------------------------------------------
(* Properties of the crawl *)

Last(s) == s[Len(s)]

\* this step issued a request
Requested == Len(net') = Len(net) + 1
\* ... and it was answered with this HTTP status
Answered(code) == Requested /\ ~Last(net').raised /\ Last(net').status_code = code
\* ... and it was answered with a status other than 200
Refused == Requested /\ ~Last(net').raised /\ Last(net').status_code # OK

\* the step appends exactly this entry to the session's log file
Logged(entry) ==
    /\ Len(logs') = Len(logs)
    /\ \A s \in DOMAIN logs : s # run => logs'[s] = logs[s]
    /\ logs'[run] = Append(logs[run], entry)

\* Scrape is being called for a company whose directory exists
CalledOnExisting == pc = "driver" /\ row <= Len(Rows) /\ directory \in dirs

\* C1: a Scrape call for a company whose directory exists returns at once:
\* no request of any kind, no file written, no log entry, the working
\* directory unchanged, and the driver at the next row.
C1_AlreadyScrapedIsSilent ==
    [][CalledOnExisting =>
          /\ nreq' = nreq /\ net' = <<>>
          /\ files' = files /\ dirs' = dirs
          /\ logs' = logs
          /\ cwd' = cwd
          /\ pc' = "driver" /\ row' = row + 1]_vars

\* a second session has skipped a company crawled by the first
C1_Witness == run = 2 /\ pc = "driver" /\ outcome = "already" /\ nreq > 0

\* C2: when the browse page comes back with a status other than 200, the
\* call returns with the company directory gone, exactly one entry (status
\* code and browse URL) appended to the log, and only that one request
\* issued; and whenever Scrape is called, in this or a later session, for a
\* company whose directory is absent, the next thing it does is an index
\* fetch for that company.
C2_RollbackOnIndexFailure ==
    [][/\ (pc = "index" /\ Refused) =>
            /\ directory \in dirs /\ directory \notin dirs'
            /\ dirs' = dirs \ {directory}
            /\ Logged(RequestFailed(Last(net').status_code, BrowseUrl(form, cik)))
            /\ Last(net').status_code \in FailureCodes
            /\ net' = <<Last(net')>> /\ Last(net').kind = "index"
            /\ nreq' = nreq + 1
            /\ pc' = "driver" /\ row' = row + 1 /\ cwd' = Root
       /\ (pc = "driver" /\ row <= Len(Rows) /\ directory \notin dirs) =>
            /\ pc' = "index" /\ row' = row /\ directory \in dirs' /\ net' = <<>>
       /\ (pc = "index" /\ pc' # "index") =>
            /\ Requested /\ Len(net') = 1
            /\ Last(net').kind = "index" /\ Last(net').url = BrowseUrl(form, cik)]_vars

\* a company rolled back in the first session has its browse page fetched
\* again, and answered, in the second
C2_Witness ==
    /\ run = 2 /\ pc = "loop" /\ Len(net) = 1
    /\ \E e \in ended : e.how = "index_failed" /\ e.run = 1 /\ e.dir = directory

\* the browse page just served has fewer than three tables, or no row of a
\* requested form type in its third
NothingListed ==
    /\ pc = "index" /\ Answered(OK)
    /\ (Last(net').facts.ntables < 3 \/ Last(net').facts.requested = 0)

\* C3: when the browse page is served with status 200 and has fewer than
\* three tables, or no row of the requested form type, the call returns
\* normally with the company directory present and empty, no further
\* request and no log entry; the directory then stays, empty, for good, and
\* every later call for that company is skipped without a request.
C3_NoFilingsIsTerminal ==
    [][/\ NothingListed =>
            /\ pc' = "driver" /\ row' = row + 1 /\ cwd' = Root
            /\ dirs' = dirs /\ directory \in dirs'
            /\ files' = files /\ files'[directory] = NoFiles
            /\ logs' = logs
            /\ nreq' = nreq + 1 /\ Len(net') = 1
            /\ \E e \in ended' : e.dir = directory /\ e.run = run /\ e.how # "index_failed"
       /\ \A e \in ended' : e.how \in {"no_table", "no_filings"} =>
            e.dir \in dirs' /\ files'[e.dir] = NoFiles
       /\ (/\ pc = "driver" /\ row <= Len(Rows)
           /\ \E e \in ended : e.dir = directory /\ e.how \in {"no_table", "no_filings"}) =>
            /\ nreq' = nreq /\ pc' = "driver" /\ row' = row + 1
            /\ dirs' = dirs /\ files' = files /\ logs' = logs]_vars

\* a company found without filings by the first session is skipped by the
\* second
C3_Witness ==
    /\ run = 2 /\ pc = "driver" /\ row > 1 /\ outcome = "already"
    /\ \E e \in ended : /\ e.how \in {"no_table", "no_filings"}
                        /\ e.run = 1
                        /\ e.dir = Directory(Rows[row - 1].cik, Rows[row - 1].ticker)

\* the names of the company directory whose content the step changed
WrittenNames ==
    {n \in DOMAIN files'[directory] :
        n \notin DOMAIN files[directory] \/ files'[directory][n] # files[directory][n]}

\* the step wrote nothing and removed nothing
NoFileChange == files' = files /\ dirs' = dirs

\* the per-filing loop goes on with the next filing of the same table
GoesOn ==
    /\ pc' = "loop" /\ idx' = idx + 1
    /\ filings_table' = filings_table /\ row' = row
    /\ directory \in dirs'

ListingServed == pc = "loop" /\ Answered(OK) /\ Last(net').facts.ntables > 0

\* C5: of a document-listing table the crawler takes the first row, in table
\* order, whose Type is a requested form type. With no such row the filing is
\* skipped: no document request, no log entry. With an empty Document in that
\* row, an "unavailable" entry is logged and the filing is skipped, also when
\* a later row of a requested type has a document. Otherwise that row's
\* document is the one requested next.
C5_FirstMatchingRow ==
    [][/\ (ListingServed /\ Last(net').facts.requested = 0) =>
            /\ GoesOn /\ NoFileChange /\ logs' = logs
       /\ (ListingServed /\ Last(net').facts.requested > 0 /\ Last(net').facts.first = NaN) =>
            /\ GoesOn /\ NoFileChange
            /\ Logged(Unavailable(cik, acc_no))
       /\ (ListingServed /\ Last(net').facts.requested > 0 /\ Last(net').facts.first # NaN) =>
            /\ pc' = "doc" /\ docname' = Last(net').facts.first
            /\ idx' = idx /\ logs' = logs
       /\ (pc = "doc" /\ Requested) =>
            /\ Last(net').kind = "doc"
            /\ Last(net').url = DocUrl(cik, acc_no, docname)
       /\ (Requested /\ Last(net').kind = "doc") => pc = "doc"]_vars

\* a filing was skipped as unavailable although a later row of a requested
\* type had a document
C5_Witness ==
    /\ pc = "loop" /\ net # <<>>
    /\ Last(net).kind = "filing" /\ Last(net).facts.first = NaN /\ Last(net).facts.later
    /\ logs[run] # <<>> /\ Last(logs[run]).text = "File is unavailable"

\* the extension the claim names: .txt when the document name contains .txt
Extension(name) == IF Contains(name, ".txt") THEN ".txt" ELSE ".html"

\* the document of the current filing was downloaded
Downloaded == pc = "doc" /\ Answered(OK)

\* C6, as claimed: for every form type a downloaded document is stored in the
\* company directory as {identifier}_{filing_date}.txt or .html.
C6_PlainFileName ==
    [][Downloaded =>
          WrittenNames = {cik \o <<"_", filings_table[idx].FilingDate, Extension(docname)>>}]_vars

\* C6, amended: a downloaded document is stored in the company directory,
\* and in no other file, as {identifier}_{filing_date}.txt (document name
\* contains .txt) or .html (otherwise) by the 10-K and 10-Q crawls, and as
\* {identifier}_{filing_date}_s1.txt or _s1.html by the S-1 crawl.
C6_FileName ==
    [][Downloaded =>
          /\ WrittenNames =
               { cik \o <<"_", filings_table[idx].FilingDate>>
                     \o (IF form = "S-1" THEN <<"_s1">> ELSE <<>>)
                     \o <<Extension(docname)>> }
          /\ cwd = directory
          /\ \A d \in dirs \ {directory} : files'[d] = files[d]
          /\ dirs' = dirs]_vars

\* the S-1 crawl has stored a text document
C6_Witness ==
    /\ form = "S-1"
    /\ \E d \in dirs : \E n \in DOMAIN files[d] : Contains(n, ".txt") /\ Contains(n, "_s1")

\* C7, as claimed: no document request is issued for a filing whose target
\* path already exists in the company directory.
C7_NoFetchOnceStored ==
    [][(pc = "doc" /\ Requested) =>
          FileName(form, cik, filings_table[idx].FilingDate, docname)
              \notin DOMAIN files[directory]]_vars

\* C8, as claimed: a request that fails without an HTTP response is logged
\* and the crawl goes on.
C8_TransportErrorNotFatal ==
    (net # <<>> /\ Last(net).raised) =>
        /\ pc # "crashed"
        /\ logs[run] # <<>> /\ Last(logs[run]).url = Last(net).url

\* C9, as claimed: a row of the requested form type without the accession
\* marker is skipped alone; the loop runs over the other rows of that type.
C9_UnmarkedRowSkipped ==
    (net # <<>> /\ Last(net).kind = "index" /\ Last(net).facts.unmarked > 0
       /\ Last(net).facts.requested > Last(net).facts.unmarked) =>
        /\ pc = "loop"
        /\ Len(filings_table) = Last(net).facts.requested - Last(net).facts.unmarked

\* C10, as claimed: in one session os.mkdir succeeds at most once for each
\* company directory.
C10_MkdirAtMostOnce == \A d \in DOMAIN mkdirs : mkdirs[d] <= 1

\* the session is over: the driver's loop ran out, or the process ended with
\* an exception
SessionOver == run > 0 /\ pc \in {"idle", "crashed"}

\* C11, as claimed: in one session Scrape is called exactly once per row of
\* the table, in table order, one call at a time, and every log entry goes,
\* appended, to the one log file named at the start of the session.
C11_OncePerRowInOrder ==
    [][/\ SessionOver' => calls' = [i \in 1..Len(Rows) |-> i]
       /\ (calls' # calls /\ run' = run) =>
            /\ pc = "driver"
            /\ calls' = Append(calls, Len(calls) + 1)
       /\ (logs' # logs /\ run' = run) =>
            /\ DOMAIN logs' = DOMAIN logs
            /\ \A s \in DOMAIN logs : s # log_file_name => logs'[s] = logs[s]
            /\ Len(logs'[log_file_name]) = Len(logs[log_file_name]) + 1
            /\ SubSeq(logs'[log_file_name], 1, Len(logs[log_file_name])) = logs[log_file_name]]_vars

\* C16: the accession number put into the document-listing URL of a filing is
\* exactly the token that follows the filing's `Acc-no:` marker, whether a
\* space or a non-breaking space stands before and after it, or the
\* description ends with it: no separator and no other text of the
\* description is part of it.
C16_AccessionNumberIsTheToken ==
    [][(pc = "loop" /\ Requested) =>
          /\ net[1].kind = "index" /\ Len(net[1].facts.tokens) = Len(filings_table)
          /\ Last(net').url = FilingUrl(cik, net[1].facts.tokens[idx])
          /\ \A i \in DOMAIN Last(net').url.args[2] :
                Last(net').url.args[2][i] \notin {SP, NBSP}
          /\ Last(net').url.args[2] \in {Acc1, Acc2, Acc3}]_vars

\* listing pages were requested for a filing marked with a non-breaking
\* space and for one whose description ends with the accession number
C16_Witness ==
    /\ \E i \in DOMAIN net : net[i].kind = "filing" /\ net[i].url.args[2] = Acc2
    /\ \E i \in DOMAIN net : net[i].kind = "filing" /\ net[i].url.args[2] = Acc3

\* the document-listing page just served has a table and no row of a
\* requested form type in it
NoMatchingDocument == ListingServed /\ Last(net').facts.requested = 0

\* C18, as claimed: a filing whose document table has no row of the requested
\* form type gets a log entry, and the loop goes on.
C18_NoDocumentIsLogged ==
    [][NoMatchingDocument =>
          /\ Len(logs'[log_file_name]) = Len(logs[log_file_name]) + 1
          /\ GoesOn]_vars

\* C18, amended: a filing whose document table has no row of the requested
\* form type is passed over in silence: nothing is appended to any log file,
\* no document is requested for it, nothing is written, and the loop goes on
\* with the next filing.
C18_NoDocumentIsSilent ==
    [][/\ NoMatchingDocument =>
            /\ \A s \in DOMAIN logs : logs'[s] = logs[s]
            /\ DOMAIN logs' = DOMAIN logs
            /\ GoesOn /\ NoFileChange
            /\ docname' = NaN
       /\ (Requested /\ Last(net').kind = "doc") =>
            /\ net # <<>> /\ Last(net).kind = "filing"
            /\ Last(net).facts.requested > 0]_vars

\* the first filing of a company was passed over for want of a matching row,
\* with nothing logged, and the loop has come to the second
C18_Witness ==
    /\ pc = "loop" /\ idx = 2 /\ Len(filings_table) = 2
    /\ Len(net) = 2 /\ Last(net).kind = "filing"
    /\ ~Last(net).raised /\ Last(net).status_code = OK
    /\ Last(net).facts.ntables > 0 /\ Last(net).facts.requested = 0
    /\ logs[log_file_name] = <<>>

\* s is a prefix of t
IsPrefix(s, t) == Len(s) <= Len(t) /\ SubSeq(t, 1, Len(s)) = s

\* C19: no step of a crawl truncates or replaces what is stored: every
\* document file there is stays, with its content a prefix of its content
\* after the step, a download adds exactly the text served to the end of its
\* file, and every log file stays with its entries a prefix of its entries
\* after the step.
C19_AppendOnly ==
    [][/\ \A d \in DOMAIN files : \A n \in DOMAIN files[d] :
            /\ d \in DOMAIN files' /\ n \in DOMAIN files'[d]
            /\ IsPrefix(files[d][n], files'[d][n])
       /\ Downloaded =>
            \A n \in WrittenNames :
                files'[directory][n] =
                    (IF n \in DOMAIN files[directory] THEN files[directory][n] ELSE <<>>)
                    \o <<Last(net').url>>
       /\ \A s \in DOMAIN logs :
            s \in DOMAIN logs' /\ IsPrefix(logs[s], logs'[s])]_vars

\* a document was written to a file that held one already: the file holds
\* both, the earlier one first
C19_Witness ==
    \E d \in DOMAIN files : \E n \in DOMAIN files[d] :
        /\ Len(files[d][n]) = 2
        /\ files[d][n][1] # files[d][n][2]
        /\ Last(net).kind = "doc" /\ files[d][n][2] = Last(net).url

Revisited(d) ==
    \E k \in DOMAIN calls :
        /\ Directory(Rows[calls[k]].cik, Rows[calls[k]].ticker) = d
        /\ (k < Len(calls) \/ pc \in {"driver", "idle"})

\* C21, as claimed: when a crawl was interrupted after a document of the
\* company was written and a later session has been through the company,
\* with the directory in place, some file of the directory holds more than
\* the interrupted crawl left in it: a document was appended again.
C21_RetryAppendsAgain ==
    \A e \in interrupted :
        (e.files # NoFiles /\ e.run < run /\ e.dir \in dirs /\ Revisited(e.dir)) =>
            \E n \in DOMAIN e.files : Len(files[e.dir][n]) > Len(e.files[n])

\* C21, amended: after a crawl was interrupted with a document of the
\* company written, the directory is never removed, no later session works
\* in it, and every file of it holds exactly what the interrupted crawl
\* left: nothing is appended again on a re-run.
C21_RetryAppendsNothing ==
    \A e \in interrupted :
        e.files # NoFiles =>
            /\ e.dir \in dirs
            /\ DOMAIN files[e.dir] = DOMAIN e.files
            /\ \A n \in DOMAIN e.files : files[e.dir][n] = e.files[n]
            /\ e.run < run => cwd # e.dir

\* a session was interrupted with one document written, and the session
\* after it has gone through the whole table and ended
C21_Witness ==
    /\ pc = "idle" /\ run > 1
    /\ \E e \in interrupted :
         /\ e.run < run /\ Revisited(e.dir)
         /\ \E n \in DOMAIN e.files : Len(e.files[n]) = 1 /\ files[e.dir][n] = e.files[n]

\* C24: between calls of Scrape, after whichever return that does not raise
\* (already scraped, index failure, fewer than three tables, no matching
\* filings, end of the loop), the working directory is the form-type root;
\* inside a call it is the directory of the company; every WriteLogFile
\* happened in the root and every document write in the directory of the
\* company being crawled, so every file of a directory carries the CIK of
\* that directory.
C24_WorkingDirectoryDiscipline ==
    /\ pc \in {"idle", "driver"} => cwd = Root
    /\ pc \in {"index", "loop", "doc"} => cwd = directory
    /\ \A w \in written : w.cwd = IF w.kind = "log" THEN Root ELSE w.dir
    /\ \A d \in DOMAIN files : \A n \in DOMAIN files[d] :
          \E i \in DOMAIN Rows :
              /\ d = Directory(Rows[i].cik, Rows[i].ticker)
              /\ Len(n) > CikWidth /\ SubSeq(n, 1, CikWidth) = Rows[i].cik

\* a call logged a failed request, wrote a document and returned at the end
\* of its loop; the call before it returned early
C24_Witness ==
    /\ pc = "driver" /\ outcome = "done" /\ cwd = Root /\ row > 2
    /\ LET d == Directory(Rows[row - 1].cik, Rows[row - 1].ticker) IN
         /\ [kind |-> "log", cwd |-> Root, dir |-> d] \in written
         /\ [kind |-> "doc", cwd |-> d, dir |-> d] \in written
         /\ files[d] # NoFiles

\* C25: with two processes crawling the same table in the same root, no
\* two of them are ever in one company directory; os.mkdir never succeeds
\* for a directory the other process is in; os.rmdir never removes a
\* directory the other process is in; the per-filing loop of a company is
\* entered by one process at most, and the documents of a company are all
\* appended by one process.
C25_AtomicDirectoryMarker ==
    /\ \A p, q \in Procs : (p # q /\ procs[p].cwd # Root) => procs[p].cwd # procs[q].cwd
    /\ \A e \in events : e.others = {}
    /\ \A e, f \in events :
          (e.kind = f.kind /\ e.kind \in {"loop", "append"} /\ e.dir = f.dir) => e.by = f.by
    /\ \A e, f \in events :
          (e.kind = "append" /\ f.kind = "loop" /\ e.dir = f.dir) => e.by = f.by

\* one process made the directory of a company and removed it after the
\* failed index request, the other made it anew, went through the loop and
\* wrote a document and is still in it, and the first has gone on past the
\* company
C25_Witness ==
    \E p, q \in Procs : \E d \in dirs :
        /\ p # q
        /\ [kind |-> "rmdir", dir |-> d, by |-> p, others |-> {}] \in events
        /\ [kind |-> "mkdir", dir |-> d, by |-> q, others |-> {}] \in events
        /\ [kind |-> "append", dir |-> d, by |-> q, others |-> {}] \in events
        /\ files[d] # NoFiles
        /\ procs[q].cwd = d
        /\ procs[p].pc = "driver" /\ procs[p].row > 1
        /\ \A i \in DOMAIN Rows :
              Directory(Rows[i].cik, Rows[i].ticker) = d => i < procs[p].row

----------------------------------------------------------------------------
(* Properties of the cleaning of one document *)

\* the tables of a document, and the text of table i as the document was
\* parsed: its own characters and those of every table nested in it
TablesOf(s) == 1..Len(s.text)
Nested(s, i) == {j \in TablesOf(s) : j = i \/ i \in Ancestors(s.parent, j)}
RECURSIVE Flattened(_, _, _)
Flattened(s, i, j) ==
    IF j > Len(s.text) THEN <<>>
    ELSE (IF j \in Nested(s, i) THEN s.text[j] ELSE <<>>) \o Flattened(s, i, j + 1)
DigitsIn(text) == Cardinality({k \in 1..Len(text) : text[k] \in {Digits[d] : d \in 1..10}})

\* the rule: no text at all, or more than 15 digits in 100 characters
OverThreshold(text) == Len(text) = 0 \/ 100 * DigitsIn(text) > 15 * Len(text)

\* the tables that are part of the document
Remaining(s) == {i \in TablesOf(s) : InTree(s, i)}

\* C13: RemoveNumericalTables takes a table out exactly when the text of the
\* table, with all nested in it, is empty or has more than 15 digits in 100
\* characters; a table at exactly 15 in 100 stays. A table stays in the
\* document exactly when neither it nor a table around it was taken out. Of
\* two tables side by side, one of letters only and one of digits only, the
\* text that RemoveTags returns has all of the first and no digit.
C13_SuppressionRule ==
    passes = 1 =>
        /\ soup.cut = {i \in TablesOf(doc) : OverThreshold(Flattened(doc, i, i))}
        /\ \A i \in TablesOf(doc) :
              (Len(Flattened(doc, i, i)) > 0
                 /\ 100 * DigitsIn(Flattened(doc, i, i)) = 15 * Len(Flattened(doc, i, i)))
                => i \notin soup.cut
        /\ Remaining(soup) = {i \in TablesOf(doc) : \A j \in soup.cut : i \notin Nested(doc, j)}
        /\ \A a, b \in TablesOf(doc) :
              (/\ Len(doc.text) = 2 /\ a # b
               /\ doc.parent[a] = 0 /\ doc.parent[b] = 0
               /\ doc.text[a] # <<>> /\ DigitsIn(doc.text[a]) = 0
               /\ doc.text[b] # <<>> /\ DigitsIn(doc.text[b]) = Len(doc.text[b]))
                => /\ Find(RemoveTags(soup), doc.text[a]) # 0
                   /\ DigitsIn(RemoveTags(soup)) = 0
                   /\ Remaining(soup) = {a}

\* a table at exactly 15 digits in 100 characters, with a table of digits
\* nested in it, has stayed and the nested table was taken out
C13_Witness ==
    /\ passes = 1
    /\ \E i, j \in TablesOf(doc) :
         /\ doc.parent[j] = i
         /\ 100 * DigitsIn(Flattened(doc, i, i)) = 15 * Len(Flattened(doc, i, i))
         /\ Len(Flattened(doc, i, i)) > 0
         /\ i \in Remaining(soup) /\ j \in soup.cut

\* C14: applied to its own output, RemoveNumericalTables takes no table out:
\* the document is left as it was, also where the first application took an
\* inner table out of an outer table that stayed.
C14_FilterIdempotent ==
    [][(passes >= 1 /\ passes' = passes + 1) =>
          /\ soup' = soup
          /\ Remaining(soup') = Remaining(soup)
          /\ \A i \in Remaining(soup) : ~OverThreshold(get_text(soup, i))]_vars

\* RemoveNumericalTables was applied twice to a document in which the first
\* application took an inner table out of an outer table that stayed
C14_Witness ==
    /\ passes = 2
    /\ \E i, j \in TablesOf(doc) :
         /\ doc.parent[j] = i
         /\ i \in Remaining(soup) /\ j \in soup.cut
         /\ doc.text[j] # <<>>

\* the orders in which the tables of the document can be taken
Orders == { [k \in TablesOf(doc) |-> f[k]] : f \in Permutations(TablesOf(doc)) }

\* the tables that remain when the tables are taken in this order
RemainingIn(order) == Remaining(ExtractEach(doc, order))

\* C17, as claimed: the tables that remain are the same in whatever order the
\* tables are evaluated and taken out.
C17_OrderDoesNotMatter ==
    passes = 1 => \A order \in Orders : RemainingIn(order) = Remaining(soup)

\* C17, amended: where no table is nested in another, the tables that remain
\* are the same in every order; with nested tables, every table that remains
\* in document order, outer before inner, remains in every other order too,
\* and an order that takes an inner table first can keep more.
C17_DocumentOrderRemovesMost ==
    passes = 1 =>
        /\ \A order \in Orders : Remaining(soup) \subseteq RemainingIn(order)
        /\ (\A i \in TablesOf(doc) : doc.parent[i] = 0) =>
              \A order \in Orders : RemainingIn(order) = Remaining(soup)
        /\ Remaining(soup) = RemainingIn([k \in TablesOf(doc) |-> k])

\* a table of letters with a table of digits nested in it: document order
\* took the outer table out, inner before outer keeps it
C17_Witness ==
    /\ passes = 1
    /\ \E i, j \in TablesOf(doc) :
         /\ doc.parent[j] = i /\ doc.parent[i] = 0
         /\ i \notin Remaining(soup)
         /\ \E order \in Orders : i \in RemainingIn(order)

----------------------------------------------------------------------------
(* Properties of conversion and aggregation *)

\* a step in which ConvertHTML works through the directory of the row
ConvertHTMLIn(d) ==
    /\ stage = "ConvertToText" /\ row <= Len(Rows) /\ row' = row + 1
    /\ d = directory /\ d \in dirs

\* C12: ConvertHTML opens no raw file whose cleaned name (.html replaced by
\* .txt) stands in rawtext when the call begins; and a call on a directory
\* that an earlier call has been through, whose raw files are the same as
\* then, opens no file and leaves every file under rawtext as it is.
C12_SanitizeIdempotent ==
    [][\A d \in dirs :
         ConvertHTMLIn(d) =>
           /\ d \in DOMAIN rawtext =>
                 \A i \in DOMAIN reads' : NewFileName(reads'[i]) \notin DOMAIN rawtext[d]
           /\ \A i, j \in DOMAIN reads' :
                 NewFileName(reads'[i]) = NewFileName(reads'[j]) => i = j
           /\ (d \in DOMAIN converted /\ converted[d] = files[d]) =>
                 /\ reads' = <<>>
                 /\ rawtext' = rawtext]_vars

\* a second call has just been through a directory with an HTML and a text
\* document of one day, and opened neither
C12_Witness ==
    /\ stage = "ConvertToText" /\ converts >= 1 /\ row > 1
    /\ reads = <<>>
    /\ LET d == Directory(Rows[row - 1].cik, Rows[row - 1].ticker) IN
         /\ d \in DOMAIN converted /\ d \in DOMAIN rawtext
         /\ converted[d] = files[d]
         /\ {HtmlName(RowOf(d).cik), TxtName(RowOf(d).cik)} \subseteq DOMAIN files[d]
         /\ rawtext[d] # NoFiles

\* the rows whose company holds a cleaned file of this name
Holders(name) ==
    {i \in DOMAIN Rows :
        LET d == Directory(Rows[i].cik, Rows[i].ticker)
        IN d \in DOMAIN rawtext /\ name \in DOMAIN rawtext[d]}

\* the content of the file of this name of the company latest in the table
LatestContent(name) ==
    LET i == CHOOSE k \in Holders(name) : \A j \in Holders(name) : j <= k
    IN rawtext[Directory(Rows[i].cik, Rows[i].ticker)][name]

\* AggregateRawText is over: it returned, or an exception ended it
Aggregated == stage \in {"done", "FileNotFoundError"}

\* C15, as claimed: after AggregateRawText, for every company of the table
\* and every non-hidden file of its rawtext, all_raw_text is a directory
\* that holds a file of the same name, with the content of the company
\* latest in table order that holds a file of that name.
C15_AggregationCopiesEverything ==
    Aggregated =>
        \A i \in DOMAIN Rows :
            LET d == Directory(Rows[i].cik, Rows[i].ticker) IN
            d \in DOMAIN rawtext =>
                \A name \in DOMAIN rawtext[d] :
                    ~Hidden(name) =>
                        /\ all_raw_text.kind = "dir"
                        /\ name \in DOMAIN all_raw_text.files
                        /\ all_raw_text.files[name] = LatestContent(name)

\* C22, as claimed: whatever directories the crawl left (a company's
\* directory rolled back, a company never converted), ConvertHTML returns to
\* the root for every row, and AggregateRawText is not ended by an
\* exception: it goes through every row of the table and returns.
C22_StagesCompose ==
    /\ stage = "ConvertToText" => cwd = Root
    /\ stage # "FileNotFoundError"
    /\ stage = "done" => row = Len(Rows) + 1

\* what the cleaning makes of a raw file
NoiseFilter(raw) == RemoveTags(RemoveNumericalTables(raw))

\* C23, as claimed: once ConvertHTML has been through a directory, for every
\* raw file it found there (hidden files apart) rawtext holds a file at the
\* derived name with the cleaned text of that raw file, and no two raw
\* files of the directory have the same derived name.
C23_CleanedFromOwnRaw ==
    \A d \in DOMAIN converted :
        LET raws == {n \in DOMAIN converted[d] : ~Hidden(n)} IN
        /\ \A n \in raws :
              /\ NewFileName(n) \in DOMAIN rawtext[d]
              /\ rawtext[d][NewFileName(n)] = NoiseFilter(converted[d][n])
        /\ \A n, m \in raws : NewFileName(n) = NewFileName(m) => n = m

----------------------------------------------------------------------------
(* Properties of the company table *)

\* the CIKs found, and the alphabetically first ticker found for a CIK
CiksFound == {cik_dict[i].cik : i \in DOMAIN cik_dict}
FirstTicker(c) ==
    LET ts == {cik_dict[i].ticker : i \in {j \in DOMAIN cik_dict : cik_dict[j].cik = c}}
    IN CHOOSE t \in ts : \A u \in ts : Rank(t) <= Rank(u)
RowsOf(c) == {i \in DOMAIN ticker_cik_df : ticker_cik_df[i].cik = c}

\* C26, as claimed: in the table MapTickerToCik builds and in the table it
\* returns after the merge of AddSicToCikDict, every CIK found has exactly
\* one row, and its ticker is the alphabetically first of the tickers
\* found for that CIK.
C26_OneRowPerCik ==
    pc \in {"AddSicToCikDict", "returned"} =>
        /\ \A i \in DOMAIN ticker_cik_df : ticker_cik_df[i].cik \in CiksFound
        /\ \A c \in CiksFound :
              /\ Cardinality(RowsOf(c)) = 1
              /\ \A i \in RowsOf(c) : ticker_cik_df[i].ticker = FirstTicker(c)

====
